---- MODULE Spec2Model ----
(***************************************************************************)
(* Model of app.py: the LINE webhook bot for child language screening.     *)
(*                                                                         *)
(* State: the process-wide session dictionary user_states, the Google      *)
(* sheet the module reads, the turns in flight on the transport's worker   *)
(* threads (threads), and three history variables that record the last     *)
(* handled event (turn), the last repository lookup (lookup) and the last  *)
(* age computation (age_calc).                                             *)
(*                                                                         *)
(* Texts the code inspects (the message, the oracle's reply, the age-range *)
(* cell) are sequences of characters; TLA+ strings are ASCII, so each CJK  *)
(* character is written as its pinyin syllable:                            *)
(*   "fan","hui" = the return keyword      "shai","jian" = screening       *)
(*   "fu","he"  = the pass token           "bu","fu","he" = the fail token *)
(*   "bu","qing","chu" = the unclear token "ge","yue" = the months unit    *)
(* Texts the code only copies (question, hint, criterion cells, the        *)
(* oracle's rephrased hint) are opaque values such as <<"Q", 1>>.          *)
(***************************************************************************)
EXTENDS Integers, Sequences, FiniteSets, TLC

VARIABLES user_states, sheet, turn, lookup, age_calc, threads

vars == <<user_states, sheet, turn, lookup, age_calc, threads>>

(***************************************************************************)
(* Bounds of the model.                                                    *)
(***************************************************************************)
\* data rows below the header row of the sheet
MaxRows == 2
\* birth years reach back this many years before CurrentYear
MaxYearsBack == 1
\* ages (in months) asked of the repository: 0..MaxMonths
MaxMonths == 3

Users == {"u1", "u2"}

(***************************************************************************)
(* Python text primitives.                                                 *)
(***************************************************************************)
Whitespace == {" "}

RECURSIVE lstrip(_)
lstrip(s) ==
    IF s # <<>> /\ Head(s) \in Whitespace THEN lstrip(Tail(s)) ELSE s

RECURSIVE rstrip(_)
rstrip(s) ==
    IF s # <<>> /\ s[Len(s)] \in Whitespace
    THEN rstrip(SubSeq(s, 1, Len(s) - 1))
    ELSE s

\* str.strip(); strip_none is the text left untrimmed
strip_none(s) == s

strip(s) == rstrip(lstrip(s))

\* sub in s  (substring containment)
Contains(sub, s) ==
    \E i \in 0..(Len(s) - Len(sub)) : SubSeq(s, i + 1, i + Len(sub)) = sub

Digits == {"0", "1", "2", "3", "4", "5", "6", "7", "8", "9"}

DigitVal(c) ==
    CASE c = "0" -> 0 [] c = "1" -> 1 [] c = "2" -> 2 [] c = "3" -> 3
      [] c = "4" -> 4 [] c = "5" -> 5 [] c = "6" -> 6 [] c = "7" -> 7
      [] c = "8" -> 8 [] c = "9" -> 9

\* map(int, re.findall(r'\d+', s)): the values of the maximal digit runs of
\* s, left to right.  cur is the value of the run being read, inrun whether
\* a run is open, acc the runs closed so far.
RECURSIVE FindAllInts(_, _, _, _)
FindAllInts(s, cur, inrun, acc) ==
    IF s = <<>>
    THEN IF inrun THEN Append(acc, cur) ELSE acc
    ELSE IF Head(s) \in Digits
         THEN FindAllInts(Tail(s), 10 * cur + DigitVal(Head(s)), TRUE, acc)
         ELSE FindAllInts(Tail(s), 0, FALSE,
                          IF inrun THEN Append(acc, cur) ELSE acc)

findall_ints(s) == FindAllInts(s, 0, FALSE, <<>>)

(***************************************************************************)
(* The question repository.  A sheet is a sequence of rows, the header     *)
(* first; a row carries the cells the code reads: column A (age_range),    *)
(* column C (question), column E (hint), column F (pass_criteria).         *)
(***************************************************************************)
NoneValue == [none |-> TRUE, value |-> <<>>]

Some(v) == [none |-> FALSE, value |-> v]

\* The scan of lines 148-156 over rows[i..], questions collected so far.
\* The two-name unpacking of line 154 raises ValueError unless the cell
\* holds exactly two digit runs; the exception leaves the loop.
RECURSIVE ScanRows(_, _, _, _)
ScanRows(rows, i, months, questions) ==
    IF i > Len(rows)
    THEN [raised |-> FALSE, questions |-> questions]
    ELSE LET age_range == rows[i].age_range
             question  == rows[i].question
         IN  IF Contains(<<"-">>, age_range)
             THEN LET ints == findall_ints(age_range)
                  IN  IF Len(ints) # 2
                      THEN [raised |-> TRUE, questions |-> questions]
                      ELSE IF ints[1] <= months /\ months <= ints[2]
                           THEN ScanRows(rows, i + 1, months,
                                         Append(questions, question))
                           ELSE ScanRows(rows, i + 1, months, questions)
             ELSE ScanRows(rows, i + 1, months, questions)

\* get_questions_by_age(months); read_ok is whether sheet.get_all_values()
\* returned (sheet_data) or raised.
get_questions_by_age(read_ok, sheet_data, months) ==
    IF ~read_ok
    THEN NoneValue
    ELSE LET scan == ScanRows(sheet_data, 2, months, <<>>)
         IN  IF scan.raised
             THEN NoneValue
             ELSE IF scan.questions # <<>>
                  THEN Some(scan.questions)
                  ELSE NoneValue

(***************************************************************************)
(* Inputs: the sheets the program is run against.                          *)
(***************************************************************************)
\* age-range cells: "1-2", "2-12 ge yue", "3" (no dash), "2-" (one number),
\* "1-2-3" (three numbers)
AgeTexts ==
    { <<"1", "-", "2">>,
      <<"2", "-", "1", "2", " ", "ge", "yue">>,
      <<"3">>,
      <<"2", "-">>,
      <<"1", "-", "2", "-", "3">> }

HeaderRow ==
    [age_range |-> <<"nian", "ling">>, question |-> <<"Q", 0>>,
     hint |-> <<"H", 0>>, pass_criteria |-> <<"P", 0>>]

\* the i-th data row: its question, hint and criterion cells are texts of
\* that row alone
DataRow(i, age) ==
    [age_range |-> age, question |-> <<"Q", i>>,
     hint |-> <<"H", i>>, pass_criteria |-> <<"P", i>>]

SheetOf(ages) ==
    <<HeaderRow>> \o [i \in 1..Len(ages) |-> DataRow(i, ages[i])]

Sheets ==
    UNION { { SheetOf(ages) : ages \in [1..n -> AgeTexts] } : n \in 0..MaxRows }

\* sheet.cell(row, col).value for the two columns the handler reads; a cell
\* below the last row is empty
NoCell == <<"None">>

sheet_cell(sh, row, col) ==
    IF row \in 1..Len(sh)
    THEN IF col = 6 THEN sh[row].pass_criteria ELSE sh[row].hint
    ELSE NoCell

(***************************************************************************)
(* The conversation engine.                                                *)
(***************************************************************************)
MODE_MAIN_MENU == "MainMenu"
MODE_SCREENING == "Screening"
MODE_TIPS      == "Tips"
MODE_TREATMENT == "Treatment"
MODE_TESTING   == "Testing"

RETURN_KEYWORD == <<"fan", "hui">>
PASS_TOKEN     == <<"fu", "he">>
FAIL_TOKEN     == <<"bu", "fu", "he">>

MainMenuSession == [mode |-> MODE_MAIN_MENU]

\* user_states[user_id] = session
Put(states, user_id, session) ==
    [u \in (DOMAIN states) \cup {user_id} |->
        IF u = user_id THEN session ELSE states[u]]

\* the reply texts, by their template and the values formatted into it
MenuText            == [kind |-> "menu"]
WelcomeText         == [kind |-> "welcome"]
SummaryText(score)  == [kind |-> "summary", score |-> score]
CompleteText(score) == [kind |-> "complete", score |-> score]
QuestionText(n, q)  == [kind |-> "question", number |-> n, question |-> q]
RetryText(h)        == [kind |-> "retry", hint |-> h]

\* the two oracle prompts, by the values formatted into them
JudgePrompt(q, c, a) ==
    [kind |-> "judge", question |-> q, pass_criteria |-> c, answer |-> a]
HintPrompt(h) == [kind |-> "hint", hint |-> h]

Call(prompt, response) == [prompt |-> prompt, response |-> response]

\* lines 217-223: the branch taken on the oracle's reply;
\* Classify_fail_first is the handler testing the fail token first
Classify_fail_first(gpt_response) ==
    IF Contains(FAIL_TOKEN, gpt_response) THEN "Fail"
    ELSE IF Contains(PASS_TOKEN, gpt_response) THEN "Pass"
    ELSE "Unclear"

Classify(gpt_response) ==
    IF Contains(PASS_TOKEN, gpt_response) THEN "Pass"
    ELSE IF Contains(FAIL_TOKEN, gpt_response) THEN "Fail"
    ELSE "Unclear"

\* lines 217-222: the score after a judged answer; ScoreAfter_unchanged is
\* the handler without line 218, ScoreAfter_decrements the handler with
\* "score -= 1" on line 218
ScoreAfter_unchanged(outcome, score) == score

ScoreAfter_decrements(outcome, score) ==
    IF outcome = "Pass" THEN score - 1 ELSE score

ScoreAfter(outcome, score) ==
    IF outcome = "Pass" THEN score + 1 ELSE score

\* lines 230-241: move to the next question or finish the run;
\* NextQuestion_stays is the handler storing current_index on the last
\* question too, instead of resetting the session; NextQuestion_keeps is
\* the handler changing only the mode of the session when the run ends
NextQuestion_keeps(states, user_id, questions, current_index, score, calls) ==
    LET idx == current_index + 1
    IN  IF idx < Len(questions)
        THEN [states  |-> Put(states, user_id,
                              [states[user_id] EXCEPT !.current_index = idx]),
              replies |-> <<QuestionText(idx + 1, questions[idx + 1])>>,
              calls   |-> calls]
        ELSE [states  |-> Put(states, user_id,
                              [states[user_id] EXCEPT
                                   !.mode = MODE_MAIN_MENU]),
              replies |-> <<CompleteText(score)>>,
              calls   |-> calls]

NextQuestion_stays(states, user_id, questions, current_index, score, calls) ==
    LET idx == current_index + 1
    IN  [states  |-> Put(states, user_id,
                         [states[user_id] EXCEPT !.current_index = idx]),
         replies |-> IF idx < Len(questions)
                     THEN <<QuestionText(idx + 1, questions[idx + 1])>>
                     ELSE <<CompleteText(score)>>,
         calls   |-> calls]

NextQuestion(states, user_id, questions, current_index, score, calls) ==
    LET idx == current_index + 1
    IN  IF idx < Len(questions)
        THEN [states  |-> Put(states, user_id,
                              [states[user_id] EXCEPT !.current_index = idx]),
              replies |-> <<QuestionText(idx + 1, questions[idx + 1])>>,
              calls   |-> calls]
        ELSE [states  |-> Put(states, user_id, MainMenuSession),
              replies |-> <<CompleteText(score)>>,
              calls   |-> calls]

\* lines 223-228: the answer is unclear; ask for the hint in simpler words
\* and return without touching the session; RetryTurn_advances is the
\* handler moving the cursor on an unclear answer
RetryTurn_advances(states, user_id, hint, hint_response, judged) ==
    [states  |-> Put(states, user_id,
                     [states[user_id] EXCEPT
                          !.current_index = states[user_id].current_index + 1]),
     replies |-> <<RetryText(hint_response)>>,
     calls   |-> <<judged, Call(HintPrompt(hint), hint_response)>>]

RetryTurn(states, user_id, hint, hint_response, judged) ==
    [states  |-> states,
     replies |-> <<RetryText(hint_response)>>,
     calls   |-> <<judged, Call(HintPrompt(hint), hint_response)>>]

\* lines 196-241: the Testing branch
TestingTurn(states, user_id, user_message, gpt_response, hint_response, sh) ==
    LET state         == states[user_id]
        questions     == state.questions
        current_index == state.current_index
        score         == state.score
    IN  IF current_index >= Len(questions)
        THEN [states  |-> Put(states, user_id, MainMenuSession),
              replies |-> <<SummaryText(score)>>,
              calls   |-> <<>>]
        ELSE LET current_question == questions[current_index + 1]
                 pass_criteria    == sheet_cell(sh, current_index + 2, 6)
                 hint             == sheet_cell(sh, current_index + 2, 5)
                 judged == Call(JudgePrompt(current_question, pass_criteria,
                                            user_message), gpt_response)
                 outcome   == Classify(gpt_response)
                 new_score == ScoreAfter(outcome, score)
             IN  IF outcome = "Pass"
                 THEN NextQuestion(
                          Put(states, user_id,
                              [state EXCEPT !.score = new_score]),
                          user_id, questions, current_index, new_score,
                          <<judged>>)
                 ELSE IF outcome = "Fail"
                 THEN NextQuestion(states, user_id, questions, current_index,
                                   new_score, <<judged>>)
                 ELSE RetryTurn(states, user_id, hint, hint_response, judged)

\* lines 183-184: a user id without a session gets the default one;
\* DefaultSession_screening is the handler defaulting to MODE_SCREENING
DefaultSession_screening(states, user_id) ==
    IF user_id \notin DOMAIN states
    THEN Put(states, user_id, [mode |-> MODE_SCREENING])
    ELSE states

DefaultSession(states, user_id) ==
    IF user_id \notin DOMAIN states
    THEN Put(states, user_id, MainMenuSession)
    ELSE states

\* handle_message(event): the store, the replies sent and the oracle calls
\* made by one turn.  gpt_response and hint_response are what the oracle
\* returns if it is asked.
handle_message(states, user_id, text, gpt_response, hint_response, sh) ==
    LET user_message == strip(text)
        states1      == DefaultSession(states, user_id)
        user_mode    == states1[user_id].mode
    IN  IF user_message = RETURN_KEYWORD
        THEN [states  |-> Put(states1, user_id, MainMenuSession),
              replies |-> <<MenuText>>,
              calls   |-> <<>>]
        ELSE IF user_mode = MODE_TESTING
        THEN TestingTurn(states1, user_id, user_message, gpt_response,
                         hint_response, sh)
        ELSE [states |-> states1, replies |-> <<>>, calls |-> <<>>]

(***************************************************************************)
(* The age calculator.  A date is [year, month, day]; birthdate_str is the *)
(* three numbers written in the text "YYYY-MM-DD".                         *)
(***************************************************************************)
IsLeap(y) == (y % 4 = 0 /\ y % 100 # 0) \/ y % 400 = 0

DaysInMonth(y, m) ==
    IF m = 2 THEN (IF IsLeap(y) THEN 29 ELSE 28)
    ELSE IF m \in {4, 6, 9, 11} THEN 30
    ELSE 31

\* datetime.strptime(birthdate_str, "%Y-%m-%d") returns a date: the text
\* names a day of the calendar; otherwise it raises ValueError
ParsesAsDate(b) ==
    /\ b.month \in 1..12
    /\ b.day \in 1..DaysInMonth(b.year, b.month)

\* line 67: (today.replace(day=1) - timedelta(days=1)).day
last_month_end_day(today) ==
    IF today.month = 1
    THEN DaysInMonth(today.year - 1, 12)
    ELSE DaysInMonth(today.year, today.month - 1)

\* line 75: the day remainder that counts as one more month; RoundsUp_28 is
\* the threshold set two days low
RoundsUp_28(days) == days >= 28

RoundsUp(days) == days >= 30

\* calculate_age(birthdate_str), with today = datetime.today().date()
calculate_age(today, birthdate_str) ==
    IF ~ParsesAsDate(birthdate_str)
    THEN [none |-> TRUE, value |-> 0]
    ELSE LET birthdate == birthdate_str
             years0  == today.year - birthdate.year
             months0 == today.month - birthdate.month
             days0   == today.day - birthdate.day
             months1 == IF days0 < 0 THEN months0 - 1 ELSE months0
             days    == IF days0 < 0
                        THEN days0 + last_month_end_day(today)
                        ELSE days0
             years   == IF months1 < 0 THEN years0 - 1 ELSE years0
             months  == IF months1 < 0 THEN months1 + 12 ELSE months1
             total_months == years * 12 + months
         IN  [none  |-> FALSE,
              value |-> IF RoundsUp(days) THEN total_months + 1
                        ELSE total_months]

\* the year the current dates are taken from (a leap year)
CurrentYear == 2024

\* current dates: after a 29-day, a 28-day, a 31-day and a 30-day month,
\* on the first day of the year, and late in a month
Todays ==
    { [year |-> CurrentYear,     month |-> 3,  day |-> 1],
      [year |-> CurrentYear - 1, month |-> 3,  day |-> 1],
      [year |-> CurrentYear,     month |-> 8,  day |-> 1],
      [year |-> CurrentYear,     month |-> 5,  day |-> 1],
      [year |-> CurrentYear,     month |-> 1,  day |-> 1],
      [year |-> CurrentYear,     month |-> 3,  day |-> 29],
      [year |-> CurrentYear,     month |-> 7,  day |-> 15],
      [year |-> CurrentYear,     month |-> 12, day |-> 31] }

\* birth-date texts of the shape YYYY-MM-DD, days that no month has
\* included, up to the year after CurrentYear
BirthTexts ==
    [year : (CurrentYear - MaxYearsBack)..(CurrentYear + 1),
     month : 1..12, day : 1..31]

(***************************************************************************)
(* Inputs of a turn.                                                       *)
(***************************************************************************)
\* message texts: the return keyword, the same inside surrounding blanks,
\* the keyword split by a blank, the screening keyword, an answer
Messages ==
    { <<"fan", "hui">>,
      <<" ", "fan", "hui", " ">>,
      <<"fan", " ", "hui">>,
      <<"shai", "jian">>,
      <<"a">> }

\* oracle replies to the judging prompt: the three literal tokens, a
\* sentence holding the pass token, and a reply holding none of them
GptReplies ==
    { <<"fu", "he">>,
      <<"bu", "fu", "he">>,
      <<"bu", "qing", "chu">>,
      <<"a", "fu", "he", "a">>,
      <<"a">> }

\* oracle replies to the hint prompt
HintReplies == { <<"R", 1>>, <<"R", 2>> }

\* what the oracle has said in a user's Testing run so far: answers judged
\* with the pass or the fail token, and answers judged a pass (the pass
\* token, not negated).  turn.counts holds them per user while the run
\* lasts, turn.run those of the turn's user with this turn counted.
NoCounts == [judged |-> 0, passes |-> 0]

CountsAfter(counts, states, user_id, calls) ==
    LET before == IF /\ user_id \in DOMAIN states
                     /\ states[user_id].mode = MODE_TESTING
                  THEN counts[user_id]
                  ELSE NoCounts
    IN  IF calls = <<>>
        THEN before
        ELSE LET reply == calls[1].response
                 fail  == Contains(FAIL_TOKEN, reply)
                 pass  == Contains(PASS_TOKEN, reply)
             IN  [judged |-> before.judged + (IF pass \/ fail THEN 1 ELSE 0),
                  passes |-> before.passes
                                 + (IF pass /\ ~fail THEN 1 ELSE 0)]

NoTurn ==
    [event |-> "none", user_id |-> "", text |-> <<>>, pre |-> <<>>,
     replies |-> <<>>, calls |-> <<>>, run |-> NoCounts,
     counts |-> [u \in Users |-> NoCounts]]

NoLookup ==
    [called |-> FALSE, read_ok |-> TRUE, months |-> 0, result |-> NoneValue]

EmptyStore == [u \in {} |-> MainMenuSession]

\* no age computed yet; today is what datetime.today().date() returns
NoAge ==
    [called |-> FALSE, today |-> [year |-> 2024, month |-> 7, day |-> 1],
     birthdate |-> [year |-> 2024, month |-> 7, day |-> 1],
     result |-> [none |-> TRUE, value |-> 0]]

\* no turn in flight
NoThreads == << >>

\* the two worker threads of the server, and a worker that has not yet
\* taken its request: its locals, the replies it sent, whether it ended in
\* an exception, and the index of the question whose answer moved the
\* cursor (-1: none)
ThreadIds == {1, 2}

Idle ==
    [pc |-> "idle", user_id |-> "", user_message |-> <<>>, user_mode |-> "",
     questions |-> <<>>, current_index |-> 0, score |-> 0,
     gpt_response |-> <<>>, replies |-> <<>>, aborted |-> FALSE,
     advanced |-> -1]

\* the messages of the concurrent turns: the return keyword and an answer
ConcurrentMessages == { <<"fan", "hui">>, <<"a">> }

\* user_states[user_id][field] = value: the assignment writes into the
\* dict the store holds now, adding the key if that dict lacks it
SetField(session, field, value) ==
    [f \in (DOMAIN session) \cup {field} |->
        IF f = field THEN value ELSE session[f]]

\* the worker has sent these replies and returned
Returns(th, replies) == [th EXCEPT !.pc = "done", !.replies = replies]

(***************************************************************************)
(* Actions.                                                                *)
(***************************************************************************)
\* whether the turn reaches line 215 (the judging call), and line 225 (the
\* hint call): the oracle's replies are inputs of the turn only then
AsksJudge(states, user_id, text) ==
    handle_message(states, user_id, text, <<>>, <<>>, sheet).calls # <<>>

JudgeReplies(states, user_id, text) ==
    IF AsksJudge(states, user_id, text) THEN GptReplies ELSE { <<>> }

HintRepliesOf(states, user_id, text, gpt_response) ==
    IF Len(handle_message(states, user_id, text, gpt_response, <<>>,
                          sheet).calls) = 2
    THEN HintReplies
    ELSE { <<>> }

\* one inbound text message of user_id, handled to completion with these
\* replies of the oracle
Handled(user_id, text, gpt_response, hint_response) ==
    LET r == handle_message(user_states, user_id, text, gpt_response,
                            hint_response, sheet)
        run == CountsAfter(turn.counts, user_states, user_id, r.calls)
    IN  /\ user_states' = r.states
        /\ turn' = [event |-> "message", user_id |-> user_id,
                    text |-> text, pre |-> user_states,
                    replies |-> r.replies, calls |-> r.calls,
                    run |-> run,
                    counts |-> [turn.counts EXCEPT ![user_id] =
                                   IF r.states[user_id].mode = MODE_TESTING
                                   THEN run ELSE NoCounts]]
        /\ UNCHANGED <<sheet, lookup, age_calc, threads>>

HandleMessage ==
    \E user_id \in Users, text \in Messages :
    \E gpt_response \in JudgeReplies(user_states, user_id, text) :
    \E hint_response \in HintRepliesOf(user_states, user_id, text,
                                       gpt_response) :
        Handled(user_id, text, gpt_response, hint_response)

\* handle_follow(event): the welcome text; the store is not touched
HandleFollow ==
    \E user_id \in Users :
        /\ turn' = [event |-> "follow", user_id |-> user_id, text |-> <<>>,
                    pre |-> user_states, replies |-> <<WelcomeText>>,
                    calls |-> <<>>, run |-> NoCounts,
                    counts |-> turn.counts]
        /\ UNCHANGED <<user_states, sheet, lookup, age_calc, threads>>

\* one call of get_questions_by_age(months)
GetQuestions ==
    \E months \in 0..MaxMonths, read_ok \in BOOLEAN :
        /\ lookup' = [called |-> TRUE, read_ok |-> read_ok,
                      months |-> months,
                      result |-> get_questions_by_age(read_ok, sheet, months)]
        /\ UNCHANGED <<user_states, sheet, turn, age_calc, threads>>

\* one call of calculate_age(birthdate_str), on the text age_calc holds
CalculateAge ==
    /\ age_calc' = [age_calc EXCEPT
                       !.called = TRUE,
                       !.result = calculate_age(age_calc.today,
                                                age_calc.birthdate)]
    /\ UNCHANGED <<user_states, sheet, turn, lookup, threads>>

\* The handler statement by statement, one worker thread per request.
\* lines 179-193: strip the text, create the default session, read the
\* mode, and reset the session on the return keyword
Begin(t) ==
    /\ threads[t].pc = "idle"
    /\ \E user_id \in Users, text \in ConcurrentMessages :
          LET user_message == strip(text)
              states1      == DefaultSession(user_states, user_id)
              user_mode    == states1[user_id].mode
              th == [threads[t] EXCEPT !.user_id = user_id,
                                       !.user_message = user_message,
                                       !.user_mode = user_mode]
          IN  IF user_message = RETURN_KEYWORD
              THEN /\ user_states' = Put(states1, user_id, MainMenuSession)
                   /\ threads' = [threads EXCEPT
                                     ![t] = Returns(th, <<MenuText>>)]
              ELSE /\ user_states' = states1
                   /\ threads' = [threads EXCEPT ![t] =
                                     IF user_mode = MODE_TESTING
                                     THEN [th EXCEPT !.pc = "read"]
                                     ELSE Returns(th, <<>>)]
    /\ UNCHANGED <<sheet, turn, lookup, age_calc>>

\* lines 197-206: read the three testing fields of the session the store
\* holds now (KeyError when it has been reset: the handler ends without a
\* reply), and close a run whose cursor is past the last question
ReadState(t) ==
    LET th    == threads[t]
        state == user_states[th.user_id]
    IN  /\ th.pc = "read"
        /\ IF ~({"questions", "current_index", "score"} \subseteq DOMAIN state)
           THEN /\ threads' = [threads EXCEPT ![t] =
                                  [th EXCEPT !.pc = "done", !.aborted = TRUE]]
                /\ UNCHANGED user_states
           ELSE LET th1 == [th EXCEPT !.questions = state.questions,
                                      !.current_index = state.current_index,
                                      !.score = state.score]
                IN  IF state.current_index >= Len(state.questions)
                    THEN /\ user_states' = Put(user_states, th.user_id,
                                               MainMenuSession)
                         /\ threads' = [threads EXCEPT ![t] =
                                Returns(th1, <<SummaryText(state.score)>>)]
                    ELSE /\ threads' = [threads EXCEPT ![t] =
                                           [th1 EXCEPT !.pc = "judge"]]
                         /\ UNCHANGED user_states
        /\ UNCHANGED <<sheet, turn, lookup, age_calc>>

\* lines 208-215: the blocking call of the oracle
Judge(t) ==
    /\ threads[t].pc = "judge"
    /\ \E gpt_response \in GptReplies :
          threads' = [threads EXCEPT ![t] =
                         [threads[t] EXCEPT !.gpt_response = gpt_response,
                                            !.pc = "classify"]]
    /\ UNCHANGED <<user_states, sheet, turn, lookup, age_calc>>

\* lines 217-228: on a pass write the local score, plus one, into the
\* session; on an unclear reply send the retry text and return
Score(t) ==
    LET th        == threads[t]
        outcome   == Classify(th.gpt_response)
        new_score == ScoreAfter(outcome, th.score)
    IN  /\ th.pc = "classify"
        /\ IF outcome = "Pass"
           THEN /\ user_states' =
                      Put(user_states, th.user_id,
                          SetField(user_states[th.user_id], "score",
                                   new_score))
                /\ threads' = [threads EXCEPT ![t] =
                                  [th EXCEPT !.score = new_score,
                                             !.pc = "advance"]]
           ELSE IF outcome = "Fail"
           THEN /\ threads' = [threads EXCEPT ![t] =
                                  [th EXCEPT !.pc = "advance"]]
                /\ UNCHANGED user_states
           ELSE /\ \E hint_response \in HintReplies :
                      threads' = [threads EXCEPT ![t] =
                                     Returns(th, <<RetryText(hint_response)>>)]
                /\ UNCHANGED user_states
        /\ UNCHANGED <<sheet, turn, lookup, age_calc>>

\* lines 230-241: write the local cursor, plus one, into the session, or
\* reset the session after the last question; send the reply
Advance(t) ==
    LET th  == threads[t]
        idx == th.current_index + 1
        th1 == [th EXCEPT !.current_index = idx,
                          !.advanced = th.current_index]
    IN  /\ th.pc = "advance"
        /\ IF idx < Len(th.questions)
           THEN /\ user_states' =
                      Put(user_states, th.user_id,
                          SetField(user_states[th.user_id], "current_index",
                                   idx))
                /\ threads' = [threads EXCEPT ![t] =
                       Returns(th1, <<QuestionText(idx + 1,
                                                   th.questions[idx + 1])>>)]
           ELSE /\ user_states' = Put(user_states, th.user_id,
                                      MainMenuSession)
                /\ threads' = [threads EXCEPT ![t] =
                                  Returns(th1, <<CompleteText(th.score)>>)]
        /\ UNCHANGED <<sheet, turn, lookup, age_calc>>

(***************************************************************************)
(* The program as shipped: the store starts empty (line 165).              *)
(***************************************************************************)
Init ==
    /\ user_states = EmptyStore
    /\ sheet \in Sheets
    /\ turn = NoTurn
    /\ lookup = NoLookup
    /\ age_calc = NoAge
    /\ threads = NoThreads

Next == HandleMessage \/ HandleFollow

Spec == Init /\ [][Next]_vars

(***************************************************************************)
(* The handler run from stored sessions.  No statement of app.py stores    *)
(* MODE_TESTING, MODE_TIPS or MODE_TREATMENT, so the Testing branch is     *)
(* analysed from the sessions the design's menu dispatch creates: a        *)
(* Testing session holds the questions found for some age, current_index 0 *)
(* and score 0.  One user at most starts with a stored session; the other  *)
(* is created by its first message.                                        *)
(***************************************************************************)
StartTesting(questions) ==
    [mode |-> MODE_TESTING, questions |-> questions,
     current_index |-> 0, score |-> 0]

StoredSessions(sh) ==
    { [mode |-> m] : m \in {MODE_MAIN_MENU, MODE_TIPS, MODE_TREATMENT} }
    \cup { StartTesting(get_questions_by_age(TRUE, sh, months).value) :
             months \in { m \in 0..MaxMonths :
                            ~get_questions_by_age(TRUE, sh, m).none } }

InitTesting ==
    /\ sheet \in Sheets
    /\ \E present \in { p \in SUBSET Users : Cardinality(p) <= 1 } :
           user_states \in [present -> StoredSessions(sheet)]
    /\ turn = NoTurn
    /\ lookup = NoLookup
    /\ age_calc = NoAge
    /\ threads = NoThreads

SpecTesting == InitTesting /\ [][Next]_vars

\* The same, for a user who keeps answering and an oracle that does not
\* stay unclear for ever: a message of user_id that the oracle judges with
\* the pass or the fail token is eventually handled while the user is in
\* Testing.
JudgedAnswer(user_id) ==
    \E text \in Messages :
        /\ AsksJudge(user_states, user_id, text)
        /\ \E gpt_response \in GptReplies :
               /\ \/ Contains(PASS_TOKEN, gpt_response)
                  \/ Contains(FAIL_TOKEN, gpt_response)
               /\ Handled(user_id, text, gpt_response, <<>>)

\* sheets whose rows all match the same ages
RunSheets ==
    { SheetOf([i \in 1..n |-> <<"1", "-", "2">>]) : n \in 1..MaxRows }

InitRun ==
    /\ InitTesting
    /\ sheet \in RunSheets
    /\ \E u \in DOMAIN user_states : user_states[u].mode = MODE_TESTING

SpecTestingFair ==
    InitRun /\ [][Next]_vars
        /\ \A user_id \in Users : WF_vars(JudgedAnswer(user_id))

(***************************************************************************)
(* Two requests served at once: app.run (line 244) serves each request on  *)
(* a thread of its own and nothing guards user_states, so the statements   *)
(* of two handlers interleave.  One user starts in a Testing run.          *)
(***************************************************************************)
InitConcurrent ==
    /\ sheet \in RunSheets
    /\ \E u \in Users :
           user_states \in
               [{u} -> { s \in StoredSessions(sheet) :
                            s.mode = MODE_TESTING }]
    /\ turn = NoTurn
    /\ lookup = NoLookup
    /\ age_calc = NoAge
    /\ threads = [t \in ThreadIds |-> Idle]

NextConcurrent ==
    \E t \in ThreadIds :
        Begin(t) \/ ReadState(t) \/ Judge(t) \/ Score(t) \/ Advance(t)

SpecConcurrent == InitConcurrent /\ [][NextConcurrent]_vars

(***************************************************************************)
NextLookup == GetQuestions

SpecLookup == Init /\ [][NextLookup]_vars

(***************************************************************************)
(* The age calculator on its own, on each current date and birth text.     *)
(***************************************************************************)
InitAge ==
    /\ user_states = EmptyStore
    /\ sheet = SheetOf(<<>>)
    /\ turn = NoTurn
    /\ lookup = NoLookup
    /\ age_calc \in { [NoAge EXCEPT !.today = t, !.birthdate = b] :
                         t \in Todays, b \in BirthTexts }
    /\ threads = NoThreads

NextAge == CalculateAge

SpecAge == InitAge /\ [][NextAge]_vars

(***************************************************************************)
(* Properties.  They read the last handled event from turn: the store      *)
(* before it (turn.pre), the store after it (user_states), the replies     *)
(* sent and the oracle calls made.                                         *)
(***************************************************************************)
IsMessage == turn.event = "message"

\* the turn's user had a session before the turn
HadSession == IsMessage /\ turn.user_id \in DOMAIN turn.pre

PreSession == turn.pre[turn.user_id]

PostSession == user_states[turn.user_id]

\* the turn asked the oracle to judge an answer: a Testing turn with
\* current_index < Len(questions) whose text is not the return keyword
JudgedTurn == HadSession /\ turn.calls # <<>>

OracleReply == turn.calls[1].response

\* the oracle's reply reads as a pass (the pass token, not negated), as a
\* fail (the fail token), or as neither
SaysPass == Contains(PASS_TOKEN, OracleReply) /\ ~Contains(FAIL_TOKEN, OracleReply)
SaysFail == Contains(FAIL_TOKEN, OracleReply)
SaysUnclear == ~Contains(PASS_TOKEN, OracleReply) /\ ~Contains(FAIL_TOKEN, OracleReply)

OnLastQuestion == PreSession.current_index + 1 = Len(PreSession.questions)

\* the message texts that are the return keyword once trimmed
ReturnTexts == { <<"fan", "hui">>, <<" ", "fan", "hui", " ">> }

\* C1: every inbound text message, in every session mode and for every
\* text, is answered with exactly one text reply.
C1_ExactlyOneReply == IsMessage => Len(turn.replies) = 1

\* C2: the return keyword (after trimming whitespace), from any mode and at
\* any current_index and score, replaces the user's session with exactly
\* {mode: MainMenu}, replies with the main-menu text and makes no oracle
\* call.
C2_ReturnResets ==
    (IsMessage /\ turn.text \in ReturnTexts) =>
        /\ PostSession = MainMenuSession
        /\ turn.replies = <<MenuText>>
        /\ turn.calls = <<>>

C2_Witness ==
    /\ HadSession
    /\ turn.text = <<" ", "fan", "hui", " ">>
    /\ PreSession.mode = MODE_TESTING
    /\ PreSession.current_index >= 1
    /\ PreSession.score >= 1
    /\ PostSession = MainMenuSession

\* C3: in Testing with current_index < Len(questions), an answer the oracle
\* judges with the fail token leaves the score unchanged and advances
\* current_index by one (on the last question the unchanged score is the
\* one reported).
C3_FailKeepsScore ==
    (JudgedTurn /\ SaysFail) =>
        IF OnLastQuestion
        THEN turn.replies = <<CompleteText(PreSession.score)>>
        ELSE /\ PostSession.mode = MODE_TESTING
             /\ PostSession.score = PreSession.score
             /\ PostSession.current_index = PreSession.current_index + 1

\* C4: in Testing with current_index < Len(questions), an answer the oracle
\* judges a pass raises the score by exactly one and advances current_index
\* by exactly one; on the last question the run ends and reports the raised
\* score.
C4_PassScores ==
    (JudgedTurn /\ SaysPass) =>
        IF OnLastQuestion
        THEN turn.replies = <<CompleteText(PreSession.score + 1)>>
        ELSE /\ PostSession.mode = MODE_TESTING
             /\ PostSession.questions = PreSession.questions
             /\ PostSession.score = PreSession.score + 1
             /\ PostSession.current_index = PreSession.current_index + 1
             /\ turn.replies =
                    <<QuestionText(PostSession.current_index + 1,
                        PostSession.questions[PostSession.current_index + 1])>>

C4_Witness ==
    /\ JudgedTurn
    /\ OracleReply = <<"a", "fu", "he", "a">>
    /\ ~OnLastQuestion
    /\ PreSession.score = 0
    /\ PostSession.score = 1
    /\ PostSession.current_index = 1

\* C5: in Testing with current_index < Len(questions), an unclear answer
\* leaves the whole session (mode, questions, current_index, score)
\* unchanged and is answered with the retry text built from the oracle's
\* rephrasing of the hint; the user's next message is judged against the
\* same question.
C5_UnclearKeepsSession ==
    (JudgedTurn /\ SaysUnclear) =>
        /\ user_states = turn.pre
        /\ Len(turn.calls) = 2
        /\ turn.calls[2].prompt.kind = "hint"
        /\ turn.replies = <<RetryText(turn.calls[2].response)>>

C5_SameQuestionNext ==
    (/\ JudgedTurn
     /\ SaysUnclear
     /\ turn'.event = "message"
     /\ turn'.user_id = turn.user_id
     /\ turn'.calls # <<>>) =>
        /\ turn'.calls[1].prompt.question = turn.calls[1].prompt.question
        /\ turn'.calls[1].prompt.question =
               PreSession.questions[PreSession.current_index + 1]

C5_Unclear == []C5_UnclearKeepsSession /\ [][C5_SameQuestionNext]_vars

C5_Witness ==
    /\ JudgedTurn
    /\ SaysUnclear
    /\ PreSession.current_index = 1
    /\ PreSession.score = 1
    /\ PostSession = PreSession
    /\ turn.replies = <<RetryText(<<"R", 2>>)>>

\* C6 as claimed: after the last question is answered with a pass or a
\* fail the session stays in Testing with current_index = Len(questions),
\* and the final summary waits for the next message.
C6_SummaryOnNextMessage ==
    (JudgedTurn /\ ~SaysUnclear /\ OnLastQuestion) =>
        /\ PostSession.mode = MODE_TESTING
        /\ PostSession.current_index = Len(PostSession.questions)

\* C6 as amended: the turn that answers the last question with a pass or a
\* fail itself emits the final score and resets the session to
\* {mode: MainMenu}; no session is ever left in Testing with
\* current_index = Len(questions), so no later message emits a summary.
C6_SummaryInSameTurn ==
    /\ (JudgedTurn /\ ~SaysUnclear /\ OnLastQuestion) =>
           /\ PostSession = MainMenuSession
           /\ Len(turn.replies) = 1
           /\ turn.replies[1].kind = "complete"
    /\ \A u \in DOMAIN user_states :
           user_states[u].mode = MODE_TESTING =>
               user_states[u].current_index < Len(user_states[u].questions)
    /\ \A i \in 1..Len(turn.replies) : turn.replies[i].kind # "summary"

C6_Witness ==
    /\ JudgedTurn
    /\ ~SaysUnclear
    /\ OnLastQuestion
    /\ Len(PreSession.questions) >= 2
    /\ PostSession = MainMenuSession

\* C7: from MainMenu the screening keyword moves the session to Testing
\* with a non-empty question list, current_index = 0 and score = 0, or,
\* when no questions are found, leaves it in MainMenu and replies with a
\* failure text.
C7_ScreeningStartsTesting ==
    (/\ HadSession
     /\ PreSession.mode = MODE_MAIN_MENU
     /\ turn.text = <<"shai", "jian">>) =>
        \/ /\ PostSession.mode = MODE_TESTING
           /\ PostSession.questions # <<>>
           /\ PostSession.current_index = 0
           /\ PostSession.score = 0
        \/ /\ PostSession = MainMenuSession
           /\ Len(turn.replies) = 1

\* C8: a user id with no session is given {mode: MainMenu} when its first
\* text message is handled, and that message is handled exactly as the same
\* message from a user whose stored session is {mode: MainMenu}.
C8_NewUserIsMainMenu ==
    (IsMessage /\ turn.user_id \notin DOMAIN turn.pre) =>
        LET known == handle_message(
                         Put(turn.pre, turn.user_id, MainMenuSession),
                         turn.user_id, turn.text, <<>>, <<>>, sheet)
        IN  /\ turn.user_id \in DOMAIN user_states
            /\ PostSession = MainMenuSession
            /\ user_states = known.states
            /\ turn.replies = known.replies
            /\ turn.calls = known.calls

C8_Witness ==
    /\ IsMessage
    /\ turn.user_id \notin DOMAIN turn.pre
    /\ turn.text = <<"a">>
    /\ PostSession = MainMenuSession

\* the score after the turn: the stored one, or the one the closing text
\* reports
NewScore ==
    IF PostSession.mode = MODE_TESTING
    THEN PostSession.score
    ELSE turn.replies[1].score

\* the branch a judged turn took, read from what it did
ObservedOutcome ==
    IF Len(turn.calls) = 2 THEN "Unclear"
    ELSE IF NewScore = PreSession.score + 1 THEN "Pass"
    ELSE "Fail"

InTesting(u) == u \in DOMAIN user_states /\ user_states[u].mode = MODE_TESTING

\* C13: in every Testing turn the pass criterion and the hint used to judge
\* questions[current_index] are read from the sheet row the question text
\* was taken from, also for an age whose matching rows are not the first
\* rows of the sheet.
C13_CriterionOfSameRow ==
    JudgedTurn =>
        \E i \in 2..Len(sheet) :
            /\ sheet[i].question = turn.calls[1].prompt.question
            /\ sheet[i].pass_criteria = turn.calls[1].prompt.pass_criteria
            /\ Len(turn.calls) = 2 =>
                   sheet[i].hint = turn.calls[2].prompt.hint

\* C14: the oracle's reply is mapped to an outcome by testing for the pass
\* token first, then for the fail token, else Unclear: a reply holding
\* both tokens is a Pass, a reply holding neither is Unclear, and every
\* reply gets exactly one outcome.
C14_PassTokenFirst ==
    JudgedTurn =>
        /\ ObservedOutcome \in {"Pass", "Fail", "Unclear"}
        /\ Contains(PASS_TOKEN, OracleReply) => ObservedOutcome = "Pass"
        /\ (~Contains(PASS_TOKEN, OracleReply)
              /\ Contains(FAIL_TOKEN, OracleReply)) =>
                 ObservedOutcome = "Fail"
        /\ (~Contains(PASS_TOKEN, OracleReply)
              /\ ~Contains(FAIL_TOKEN, OracleReply)) =>
                 (ObservedOutcome = "Unclear" /\ user_states = turn.pre)

\* a reply holding both tokens, taken as a pass
C14_Witness ==
    /\ JudgedTurn
    /\ OracleReply = FAIL_TOKEN
    /\ Contains(PASS_TOKEN, OracleReply)
    /\ Contains(FAIL_TOKEN, OracleReply)
    /\ ObservedOutcome = "Pass"

\* C15: only an unclear answer leaves the cursor where it is: every answer
\* judged with the pass or the fail token advances it, the n-th such answer
\* of a run over n questions ends the run in that same turn (closing text,
\* session {mode: MainMenu}), and so a run in which the user keeps answering
\* and the oracle is not unclear for ever returns to MainMenu.
C15_Advances ==
    JudgedTurn =>
        IF SaysUnclear
        THEN PostSession = PreSession
        ELSE IF OnLastQuestion
             THEN /\ turn.run.judged = Len(PreSession.questions)
                  /\ PostSession = MainMenuSession
                  /\ Len(turn.replies) = 1
                  /\ turn.replies[1].kind = "complete"
             ELSE /\ turn.run.judged < Len(PreSession.questions)
                  /\ PostSession.mode = MODE_TESTING
                  /\ PostSession.current_index = turn.run.judged
                  /\ PostSession.current_index
                         = PreSession.current_index + 1

C15_RunEnds ==
    /\ []C15_Advances
    /\ \A u \in Users : InTesting(u) ~> ~InTesting(u)

C15_Witness ==
    /\ JudgedTurn
    /\ ~SaysUnclear
    /\ turn.run.judged = 2
    /\ Len(PreSession.questions) = 2
    /\ turn.replies[1].kind = "complete"
    /\ ~InTesting(turn.user_id)

\* C16: whenever a session is in Testing, 0 <= current_index <=
\* Len(questions) and score >= 0, and from one turn of a run to the next
\* neither score nor current_index decreases.
C16_InRange ==
    \A u \in DOMAIN user_states :
        user_states[u].mode = MODE_TESTING =>
            /\ 0 <= user_states[u].current_index
            /\ user_states[u].current_index <= Len(user_states[u].questions)
            /\ user_states[u].score >= 0

C16_NeverDecreases ==
    \A u \in DOMAIN user_states :
        (user_states[u].mode = MODE_TESTING
           /\ user_states'[u].mode = MODE_TESTING) =>
            /\ user_states'[u].score >= user_states[u].score
            /\ user_states'[u].current_index >= user_states[u].current_index

C16_CursorAndScore == []C16_InRange /\ [][C16_NeverDecreases]_vars

C16_Witness ==
    /\ JudgedTurn
    /\ PreSession.current_index = 0
    /\ PostSession.mode = MODE_TESTING
    /\ PostSession.current_index = 1
    /\ PostSession.score = 1
    /\ PostSession.current_index < Len(PostSession.questions)

\* C17: a session carries questions, current_index and score only while its
\* mode is Testing: every turn that takes a session out of Testing (the
\* return keyword, the end of the run) leaves it equal to {mode: MainMenu}.
C17_FieldsOnlyInTesting ==
    /\ \A u \in DOMAIN user_states :
           user_states[u].mode # MODE_TESTING =>
               DOMAIN user_states[u] = {"mode"}
    /\ (HadSession /\ PreSession.mode = MODE_TESTING
          /\ PostSession.mode # MODE_TESTING) =>
             PostSession = MainMenuSession

C17_Witness ==
    /\ JudgedTurn
    /\ PreSession.score >= 1
    /\ PreSession.current_index >= 1
    /\ PostSession.mode = MODE_MAIN_MENU
    /\ DOMAIN PostSession = {"mode"}

\* C20: the score the closing text of a run reports is the number of turns
\* of that run whose answer was judged a pass, and is at most
\* Len(questions); unclear and failed answers add nothing.
C20_ScoreCountsPasses ==
    (JudgedTurn /\ PostSession.mode # MODE_TESTING) =>
        /\ turn.replies[1].score = turn.run.passes
        /\ turn.replies[1].score <= Len(PreSession.questions)

(***************************************************************************)
(* Properties of the repository lookup, read from lookup.                  *)
(***************************************************************************)
\* the row's age-range cell reads "min-max" and min <= months <= max
RowMatches(row, months) ==
    /\ \E i \in 1..Len(row.age_range) : row.age_range[i] = "-"
    /\ LET ints == findall_ints(row.age_range)
       IN  Len(ints) = 2 /\ ints[1] <= months /\ months <= ints[2]

\* the questions of the data rows that match months, in row order
RECURSIVE MatchingQuestions(_, _, _)
MatchingQuestions(sh, i, months) ==
    IF i > Len(sh)
    THEN <<>>
    ELSE (IF RowMatches(sh[i], months) THEN <<sh[i].question>> ELSE <<>>)
         \o MatchingQuestions(sh, i + 1, months)

\* the questions a lookup returned; "no result" returns none
Returned == IF lookup.result.none THEN <<>> ELSE lookup.result.value

\* C9: get_questions_by_age(months) returns the question text of exactly
\* the non-header rows whose range min-max has min <= months <= max, in row
\* order; a row whose range text has no "-" is never returned.
C9_ExactlyMatchingRows ==
    (lookup.called /\ lookup.read_ok) =>
        Returned = MatchingQuestions(sheet, 2, lookup.months)

\* C10: when the read succeeds, get_questions_by_age(months) returns "no
\* result" only when zero rows match months; a malformed age-range cell in
\* one row does not suppress the matching rows.
C10_NoneOnlyWhenNoMatch ==
    (lookup.called /\ lookup.read_ok /\ lookup.result.none) =>
        MatchingQuestions(sheet, 2, lookup.months) = <<>>

(***************************************************************************)
(* Properties of the age calculator, read from age_calc.                   *)
(***************************************************************************)
\* date a is not later than date b
NotLater(a, b) ==
    \/ a.year < b.year
    \/ a.year = b.year /\ a.month < b.month
    \/ a.year = b.year /\ a.month = b.month /\ a.day <= b.day

AgeComputed == age_calc.called /\ ~age_calc.result.none

\* C11: for every birth date that parses as YYYY-MM-DD, dates later than
\* the current date included, calculate_age returns a non-negative number
\* of months.
C11_AgeNonNegative == AgeComputed => age_calc.result.value >= 0

\* C12: with the current date fixed, calculate_age does not decrease as the
\* birth date moves earlier: every valid birth date not earlier than the
\* one just computed has an age not greater than it.
C12_AgeMonotone ==
    AgeComputed =>
        \A b2 \in BirthTexts :
            (ParsesAsDate(b2) /\ NotLater(age_calc.birthdate, b2)) =>
                calculate_age(age_calc.today, b2).value
                    <= age_calc.result.value

\* a borrow from a 31-day month that leaves 30 days and rounds up
C12_Witness ==
    /\ AgeComputed
    /\ age_calc.today = [year |-> CurrentYear, month |-> 8, day |-> 1]
    /\ age_calc.birthdate = [year |-> CurrentYear, month |-> 6, day |-> 2]
    /\ age_calc.result.value = 2
    /\ calculate_age(age_calc.today,
                     [year |-> CurrentYear, month |-> 6, day |-> 3]).value = 1

(***************************************************************************)
(* Properties of two requests served at once, read from threads.           *)
(***************************************************************************)
\* no handler is between two of its statements
Quiescent == \A t \in ThreadIds : threads[t].pc \in {"idle", "done"}

\* C18: under any interleaving of two Testing turns of one user the score
\* is not counted twice and no question is skipped: whenever no handler is
\* between its statements, score <= current_index in a Testing session,
\* and no two turns of a user moved the cursor for the same question.
C18_NoDoubleCount ==
    Quiescent =>
        /\ \A u \in DOMAIN user_states :
               user_states[u].mode = MODE_TESTING =>
                   user_states[u].score <= user_states[u].current_index
        /\ \A t1, t2 \in ThreadIds :
               (t1 # t2 /\ threads[t1].user_id = threads[t2].user_id
                  /\ threads[t1].advanced # -1) =>
                   threads[t1].advanced # threads[t2].advanced

\* C19: a Testing turn in flight while the session of its user is reset
\* (return keyword, end of the run) neither ends in an exception, without
\* a reply, nor writes score or current_index into the reset session: a
\* session in MainMenu is exactly {mode: MainMenu}.
C19_ResetHolds ==
    /\ \A t \in ThreadIds : ~threads[t].aborted
    /\ \A u \in DOMAIN user_states :
           user_states[u].mode = MODE_MAIN_MENU =>
               DOMAIN user_states[u] = {"mode"}

====
